---- MODULE Spec2Model ----
(***************************************************************************)
(* A model of pyscan's scan engine:                                        *)
(*   - EpicsWriter.write            (pyscan/utils.py)                      *)
(*   - ReadGroupInterface           (pyscan/dal/bsread_dal.py)             *)
(*   - the positioner generators    (pyscan/positioner.py)                 *)
(*                                                                         *)
(* Conventions.  Python's None is the empty tuple <<>> and a present value *)
(* v is the 1-tuple <<v>>.  Wall-clock time is an integer count of clock   *)
(* ticks.  Floating point arithmetic is modelled as exact arithmetic on    *)
(* integers.                                                               *)
(***************************************************************************)
EXTENDS Integers, Sequences, FiniteSets, TLC

(***************************************************************************)
(* Bounds of the model.                                                    *)
(***************************************************************************)
\* Number of PVs an EpicsWriter is connected to.
NumPvs == 2
\* The wall clock runs from 0 to MaxTime ticks.
MaxTime == 3
\* The largest write timeout, in ticks.
MaxTimeout == 2

\* Clock ticks in a second (the resolution of a timestamp's nanoseconds).
NsPerSec == 2
\* The timestamp of the latest frame the stream delivers, in ticks.
MaxFrameTime == 5
\* Number of frames the stream delivers.
MaxFrames == 3
\* self.default_read_timeout, in ticks.
DefaultReadTimeout == 1

\* The largest number of axes of a positioner.
MaxAxes == 2
\* The largest step count of an axis.
MaxSteps == 2
\* The largest number of passes.
MaxPasses == 2
\* The largest number of waypoints of a VectorPositioner.
MaxPositions == 3
\* Two generators of one positioner are followed until each has yielded more
\* than MaxInterleaved positions.
MaxInterleaved == 2

\* Targets that a caller may write, zero and negative values included.
TargetVals == {-1, 0, 2}
\* Values a channel may read back.
ReadVals == {-1, 0, 1, 2}
\* Tolerances a caller may ask for (tolerance > 0).
Tolerances == {1, 2}
\* Timeouts a caller may ask for (timeout > 0).
Timeouts == 1..MaxTimeout

VARIABLES
    \* ---- the wall clock (time.time()) ----
    now,
    \* ---- EpicsWriter.write ----
    w_pc,                \* position in write: "idle", "check", "poll", "end", "done"
    values,              \* the targets, one per PV
    tolerance,
    timeout,
    within_tolerance,    \* utils.py:62
    initial_timestamp,   \* utils.py:63
    w_index,             \* the PV the for loop of utils.py:67 is at
    w_outcome,           \* "none", "ok", "ValueError", "TypeError"
    first_poll,          \* history: what PV's first poll after the put read
    ever_within,         \* history: PV has read back a value within tolerance
    \* ---- ReadGroupInterface ----
    r_pc,                     \* position in read: "idle", "loop"
    message_cache,            \* bsread_dal.py:27
    message_cache_timestamp,  \* bsread_dal.py:28
    read_timestamp,           \* bsread_dal.py:86
    stream,                   \* the bsread stream: connected, frames sent so far
    r_outcome,                \* how the last call ended
    r_result,                 \* the list the last call returned
    last_message,             \* history: what the last receive() returned
    last_match,               \* history: is_message_after_timestamp of it, if any
    matched,                  \* history: the frame the last successful read matched
    r_hist,                   \* history of the calls: see NoHistory
    \* ---- positioners ----
    self,                \* the positioner object
    gen,                 \* the frame of the generator get_generator() returned
    out,                 \* history: the positions the generator has yielded
    out_index,           \* history: the index of each yielded waypoint
    other                \* a second generator of the positioner, set aside

writer_vars == <<w_pc, values, tolerance, timeout, within_tolerance,
                 initial_timestamp, w_index, w_outcome, first_poll, ever_within>>

reader_vars == <<r_pc, message_cache, message_cache_timestamp, read_timestamp,
                 stream, r_outcome, r_result, last_message, last_match, matched,
                 r_hist>>

positioner_vars == <<self, gen, out, out_index, other>>

vars == <<now, writer_vars, reader_vars, positioner_vars>>

Pvs == 1..NumPvs

\* Python's None and a present value.
None == <<>>
Some(v) == <<v>>

\* abs()
Abs(x) == IF x < 0 THEN -x ELSE x

\* Python truth value of what pv.get() returned: None and 0 are both false.
Truthy(r) == r # None /\ r[1] # 0

\* Everything pv.get() may return.
GetResults == {None} \cup {Some(v) : v \in ReadVals}

\* all(within_tolerance)
AllReached(wt) == \A i \in Pvs : wt[i]

\* abs(pv.get() - values[index]) < tolerance
WithinTolerance(v, target, tol) == Abs(v - target) < tol

\* The clock is followed up to MaxTime, and beyond it for as long as a call
\* that started by then waits for its timeout.
ClockRuns ==
    \/ now < MaxTime
    \/ w_pc \in {"check", "poll"} /\ now - initial_timestamp < timeout
    \/ r_pc = "loop" /\ now - read_timestamp < DefaultReadTimeout

\* time.time() advances.
Tick ==
    /\ ClockRuns
    /\ now' = now + 1
    /\ UNCHANGED <<writer_vars, reader_vars, positioner_vars>>

(***************************************************************************)
(* ReadGroupInterface                                                      *)
(***************************************************************************)
\* self.properties and self.monitor_properties
properties == <<"P1", "P2">>
monitor_properties == <<"M1">>

\* A frame of the stream: its global timestamp and its pulse.  The value a
\* frame holds for a channel is the pair of the channel and the frame's pulse,
\* so that the values of two frames never agree.
Frame(ts, pulse) == [sec |-> ts \div NsPerSec, ns |-> ts % NsPerSec, pulse |-> pulse]
FrameData(frame, pv_name) == <<pv_name, frame.pulse>>

\* Frames arrive in non-decreasing timestamp order.
FrameTime(frame) == frame.sec * NsPerSec + frame.ns
NextFrames == {Frame(ts, stream.pulse + 1) : ts \in stream.ts..MaxFrameTime}

\* int(timestamp) and int(math.modf(timestamp)[0] * 1e9)
Epoch(timestamp) == timestamp \div NsPerSec
Nanoseconds(timestamp) == timestamp % NsPerSec

\* A frame exactly at the timestamp's nanoseconds is taken to be before it.
NsStrictlyAfter(message_ns, current_ns) == message_ns > current_ns

\* message_ns >= current_ns
NsNotBefore(message_ns, current_ns) == message_ns >= current_ns

\* Only the seconds of the frame and of the timestamp are compared.
IsMessageInSecondOrAfter(message, timestamp) ==
    message # None /\ message[1].sec >= Epoch(timestamp)

\* is_message_after_timestamp(message, timestamp)
IsMessageAfterTimestamp(message, timestamp) ==
    IF message = None
        THEN FALSE
        ELSE LET current_epoch == Epoch(timestamp)
                 current_ns == Nanoseconds(timestamp)
                 message_epoch == message[1].sec
                 message_ns == message[1].ns
             IN  IF message_epoch = current_epoch
                     THEN NsNotBefore(message_ns, current_ns)
                     ELSE message_epoch > current_epoch

\* _read_pvs_from_cache(pvs_to_read), for a cache that is not empty
ReadPvsFromCache(cache, pvs_to_read) ==
    [i \in 1..Len(pvs_to_read) |-> FrameData(cache[1], pvs_to_read[i])]

\* Every frame received is cached, matching or not.
CacheEveryFrame(cache, message, timestamp) ==
    IF message # None THEN message ELSE cache

\* The cache after read() has received a message: lines 89-90.
CacheAfterReceive(cache, message, timestamp) ==
    IF IsMessageAfterTimestamp(message, timestamp) THEN message ELSE cache


\* The history of the calls made on a ReadGroupInterface:
\*   succeeded      a read() has returned since construction or the last close()
\*   cache_at_call  the cache and its timestamp when the last read() was called
\*   last_read      how the last read() ended
\*   received       the frames received so far by the last read()
NoHistory ==
    [succeeded |-> FALSE, cache_at_call |-> <<None, None>>, last_read |-> "none",
     received |-> <<>>]

\* read() is called: read_timestamp = time().
ReadCall ==
    /\ r_pc = "idle"
    /\ now <= MaxTime
    /\ read_timestamp' = now
    /\ r_hist' = [r_hist EXCEPT !.cache_at_call = <<message_cache, message_cache_timestamp>>,
                                !.last_read = "none", !.received = <<>>]
    /\ r_pc' = "loop"
    /\ r_outcome' = "none"
    /\ r_result' = <<>>
    /\ last_message' = None
    /\ last_match' = None
    /\ UNCHANGED <<message_cache, message_cache_timestamp, stream, matched>>
    /\ UNCHANGED <<now, writer_vars, positioner_vars>>

\* while time() - read_timestamp < self.default_read_timeout
ReadLoopCondition(t, t0) == t - t0 < DefaultReadTimeout

\* What stream.receive() may return: no message after the receive timeout,
\* or the next frame of the stream.  What it does on a stream that close()
\* has disconnected is not the reader's to say: it may also raise.
ReceiveResults ==
    {None} \cup (IF stream.pulse < MaxFrames THEN {Some(f) : f \in NextFrames} ELSE {})

StreamAfter(message) ==
    IF message = None
        THEN stream
        ELSE [stream EXCEPT !.ts = FrameTime(message[1]), !.pulse = message[1].pulse]

\* The frames the call has received, after one more receive().
ReceivedAfter(message) ==
    IF message = None THEN r_hist.received ELSE Append(r_hist.received, message[1])

\* One turn of the loop in which the received message is after read_timestamp:
\* the message is cached and the values of self.properties are returned.
ReadMatch ==
    /\ r_pc = "loop"
    /\ ReadLoopCondition(now, read_timestamp)
    /\ \E message \in ReceiveResults :
          /\ IsMessageAfterTimestamp(message, read_timestamp)
          /\ stream' = StreamAfter(message)
          /\ last_message' = message
          /\ last_match' = Some(TRUE)
          /\ matched' = message
          /\ message_cache' = CacheAfterReceive(message_cache, message, read_timestamp)
          /\ r_result' = ReadPvsFromCache(message_cache', properties)
          /\ r_hist' = [r_hist EXCEPT !.succeeded = TRUE, !.last_read = "read",
                                      !.received = ReceivedAfter(message)]
    /\ message_cache_timestamp' = Some(read_timestamp)
    /\ r_outcome' = "read"
    /\ r_pc' = "idle"
    /\ UNCHANGED read_timestamp
    /\ UNCHANGED <<now, writer_vars, positioner_vars>>

\* One turn of the loop in which nothing was received, or a message that is
\* not after read_timestamp: the loop goes on.
ReadNoMatch ==
    /\ r_pc = "loop"
    /\ ReadLoopCondition(now, read_timestamp)
    /\ \E message \in ReceiveResults :
          /\ ~IsMessageAfterTimestamp(message, read_timestamp)
          /\ stream' = StreamAfter(message)
          /\ last_message' = message
          /\ last_match' = Some(FALSE)
          /\ message_cache' = CacheAfterReceive(message_cache, message, read_timestamp)
          /\ r_hist' = [r_hist EXCEPT !.received = ReceivedAfter(message)]
    /\ UNCHANGED <<r_pc, message_cache_timestamp, read_timestamp, r_outcome,
                   r_result, matched>>
    /\ UNCHANGED <<now, writer_vars, positioner_vars>>

\* The read timeout ends the call and empties the cache.
ReadTimeoutClearsCache ==
    /\ r_pc = "loop"
    /\ ~ReadLoopCondition(now, read_timestamp)
    /\ r_outcome' = "ReadTimeout"
    /\ r_pc' = "idle"
    /\ r_hist' = [r_hist EXCEPT !.last_read = "ReadTimeout"]
    /\ message_cache' = None
    /\ message_cache_timestamp' = None
    /\ UNCHANGED <<read_timestamp, stream, r_result, last_message, last_match,
                   matched>>
    /\ UNCHANGED <<now, writer_vars, positioner_vars>>

\* The else branch of the while loop: raise Exception("Read timeout ...")
ReadTimeout ==
    /\ r_pc = "loop"
    /\ ~ReadLoopCondition(now, read_timestamp)
    /\ r_outcome' = "ReadTimeout"
    /\ r_pc' = "idle"
    /\ r_hist' = [r_hist EXCEPT !.last_read = "ReadTimeout"]
    /\ UNCHANGED <<message_cache, message_cache_timestamp, read_timestamp,
                   stream, r_result, last_message, last_match, matched>>
    /\ UNCHANGED <<now, writer_vars, positioner_vars>>

\* stream.receive() raises on a stream that close() has disconnected: the
\* exception leaves read(), which has touched nothing yet in this turn.
ReadStreamError ==
    /\ r_pc = "loop"
    /\ ReadLoopCondition(now, read_timestamp)
    /\ ~stream.connected
    /\ r_outcome' = "StreamError"
    /\ r_pc' = "idle"
    /\ r_hist' = [r_hist EXCEPT !.last_read = "StreamError"]
    /\ UNCHANGED <<message_cache, message_cache_timestamp, read_timestamp,
                   stream, r_result, last_message, last_match, matched>>
    /\ UNCHANGED <<now, writer_vars, positioner_vars>>

\* read_cached_monitors(): _read_pvs_from_cache(self.monitor_properties)
ReadCachedMonitors ==
    /\ r_pc = "idle"
    /\ IF message_cache = None
          THEN r_outcome' = "EmptyCache" /\ r_result' = <<>>
          ELSE /\ r_outcome' = "monitors"
               /\ r_result' = ReadPvsFromCache(message_cache, monitor_properties)
    /\ UNCHANGED <<r_pc, message_cache, message_cache_timestamp, read_timestamp,
                   stream, last_message, last_match, matched, r_hist>>
    /\ UNCHANGED <<now, writer_vars, positioner_vars>>

\* The cache is kept over a close().
CacheKept(cache) == cache

\* self._message_cache = None
CacheAfterClose(cache) == None

\* close(): disconnect the stream and clear the cache.
Close ==
    /\ r_pc = "idle"
    /\ stream' = [stream EXCEPT !.connected = FALSE]
    /\ message_cache' = CacheAfterClose(message_cache)
    /\ r_hist' = [r_hist EXCEPT !.succeeded = FALSE]
    /\ message_cache_timestamp' = None
    /\ r_outcome' = "closed"
    /\ r_result' = <<>>
    /\ UNCHANGED <<r_pc, read_timestamp, last_message, last_match, matched>>
    /\ UNCHANGED <<now, writer_vars, positioner_vars>>


(***************************************************************************)
(* Positioners                                                             *)
(*                                                                         *)
(* A coordinate is an integer count of 1/Unit, with Unit a multiple of     *)
(* every step count, so that (end - start) / steps is exact.               *)
(***************************************************************************)
RECURSIVE Factorial(_)
Factorial(n) == IF n <= 1 THEN 1 ELSE n * Factorial(n - 1)

Unit == Factorial(MaxSteps)

Min(a, b) == IF a < b THEN a ELSE b

\* What the constructors are called with.
\* (start, end) of one axis: an ascending and a descending axis.
AxisRanges == {<<0, 2 * Unit>>, <<Unit, -Unit>>}
\* steps as a list of ints (step counts) or a list of floats (step sizes); an
\* int n is the number n, a float is the number v / Unit
StepCounts == {[tag |-> "int", v |-> n] : n \in 1..MaxSteps}
StepSizes == {[tag |-> "float", v |-> dx] : dx \in {Unit, (3 * Unit) \div 2}}
\* ... or a list that is neither: of elements that are neither int nor float
\* (strings, say), or of ints and floats mixed
StepOther == [tag |-> "other", v |-> 0]
MixedSteps(n) ==
    IF n < 2
        THEN {}
        ELSE {[i \in 1..n |-> IF i = 1 THEN [tag |-> "int", v |-> MaxSteps]
                                        ELSE [tag |-> "float", v |-> Unit]],
              [i \in 1..n |-> IF i = 1 THEN [tag |-> "float", v |-> Unit]
                                        ELSE [tag |-> "int", v |-> 1]]}
StepLists(n) ==
    [1..n -> StepCounts] \cup [1..n -> StepSizes]
        \cup {[i \in 1..n |-> StepOther]} \cup MixedSteps(n)
\* offsets: None (the empty tuple), or one offset per axis, or one too few
OffsetLists(n) ==
    {<<>>, [i \in 1..n |-> Unit]}
        \cup (IF n >= 2 THEN {[i \in 1..(n - 1) |-> Unit]} ELSE {})
\* end: as many values as start has, or one too few
EndLists(end) ==
    {end} \cup (IF Len(end) >= 2 THEN {SubSeq(end, 1, Len(end) - 1)} ELSE {})
\* the waypoints of a VectorPositioner
Waypoints == {<<0>>, <<Unit>>}

NoPositioner == [kind |-> "none"]

\* The frame of a generator that has not run yet.
NewGenerator ==
    [pc |-> "begin",
     pass_number |-> 0,           \* the loop variable of "for ... in range(self.passes)"
     step_number |-> 0,           \* the loop variable of "for __ in range(self.n_steps)"
     current_positions |-> <<>>,  \* current_positions / positions
     direction |-> 1,             \* ZigZagLinearPositioner: direction
     directions |-> <<>>,         \* ZigZagAreaPositioner: directions
     stack |-> <<>>,              \* the calls of scan_axis that are open
     indexes |-> <<>>,            \* ZigZagVectorPositioner: what cycle() repeats
     cursor |-> 0,                \* ... and where in it the cycle is
     n_indexes |-> 0,
     x |-> 0,
     error |-> "none",            \* the exception that ended the generator
     completed |-> <<>>,          \* history: loops each axis completed in this pass
     left |-> <<>>]               \* history: directions the previous pass left

NoGenerator == [NewGenerator EXCEPT !.pc = "none"]

\* No second generator.
NoOther == [gen |-> NoGenerator, out |-> <<>>, out_index |-> <<>>]

\* [a + b for a, b in zip(xs, ys)]
ZipAdd(xs, ys) == [i \in 1..Min(Len(xs), Len(ys)) |-> xs[i] + ys[i]]

\* math.floor(a / b), for b > 0
Floor(a, b) == a \div b

\* The offsets are added to start and to end, if offsets were given.
WithOffsets(xs, offsets) == IF offsets # <<>> THEN ZipAdd(xs, offsets) ELSE xs

\* The number an element of steps stands for, in units of 1/Unit.
StepValue(step) == IF step.tag = "int" THEN step.v * Unit ELSE step.v

\* (end - start) / steps
Divide(a, step) == (a * Unit) \div StepValue(step)

\* isinstance(steps[0], int) or isinstance(steps[0], float): otherwise neither
\* n_steps nor step_size is set.
Configured(steps) == steps[1].tag \in {"int", "float"}

\* LinearPositioner.__init__
LinearPositionerInit(kind, start, end, steps, passes, offsets) ==
    LET self_start == WithOffsets(start, offsets)
        self_end == WithOffsets(end, offsets)
        n == Min(Min(Len(self_start), Len(self_end)), Len(steps))
    IN  [kind |-> kind,
         args |-> [start |-> start, end |-> end],
         offsets |-> offsets,
         passes |-> passes,
         start |-> self_start,
         end |-> self_end,
         steps |-> steps,
         configured |-> Configured(steps),
         n_steps |-> CASE steps[1].tag = "int" -> steps[1].v
                       [] steps[1].tag = "float" ->
                             Floor(end[1] - start[1], StepValue(steps[1]))
                       [] OTHER -> 0,
         step_size |-> CASE steps[1].tag = "int" ->
                               [i \in 1..n |-> Divide(self_end[i] - self_start[i], steps[i])]
                         [] steps[1].tag = "float" ->
                               [i \in 1..Len(steps) |-> StepValue(steps[i])]
                         [] OTHER -> <<>>]

\* get_generator() hands out the generator that is already running, if any.
GetGeneratorResumed ==
    /\ self.kind # "none"
    /\ gen' = IF other.gen.pc # "none" THEN other.gen ELSE NewGenerator
    /\ out' = <<>>
    /\ out_index' = <<>>
    /\ UNCHANGED <<self, other, now, writer_vars, reader_vars>>

\* get_generator() is called: a new generator, which has yielded nothing.
GetGenerator ==
    /\ self.kind # "none"
    /\ gen' = NewGenerator
    /\ out' = <<>>
    /\ out_index' = <<>>
    /\ UNCHANGED <<self, other, now, writer_vars, reader_vars>>

\* The caller sets the generator it holds aside and turns to the one it had
\* set aside before, if any: it may get_generator() again and take positions
\* from either generator in any order.
SwapGenerators ==
    /\ self.kind # "none"
    /\ gen.pc # "none" \/ other.gen.pc # "none"
    /\ other' = [gen |-> gen, out |-> out, out_index |-> out_index]
    /\ gen' = other.gen
    /\ out' = other.out
    /\ out_index' = other.out_index
    /\ UNCHANGED <<self, now, writer_vars, reader_vars>>

\* LinearPositioner(...) or ZigZagLinearPositioner(...)
ConstructLinear ==
    /\ self.kind = "none"
    /\ \E kind \in {"Linear", "ZigZagLinear"}, n \in 1..MaxAxes, passes \in 1..MaxPasses :
          \E ranges \in [1..n -> AxisRanges], steps \in StepLists(n),
             offsets \in OffsetLists(n) :
             \E end \in EndLists([i \in 1..n |-> ranges[i][2]]) :
                self' = LinearPositionerInit(kind,
                                             [i \in 1..n |-> ranges[i][1]],
                                             end, steps, passes, offsets)
    /\ UNCHANGED <<gen, out, out_index, other, now, writer_vars, reader_vars>>

\* [position + step_size for position, step_size in zip(current_positions, self.step_size)]
LinearStepPositions(current_positions, step_size, direction) ==
    [i \in 1..Min(Len(current_positions), Len(step_size)) |->
        current_positions[i] + step_size[i] * direction]

\* A pass that goes on from where the pass before it ended.
LinearPassPositionsContinued(start, current_positions) ==
    IF current_positions = <<>> THEN start ELSE current_positions

\* The position a pass of LinearPositioner begins at: copy(self.start)
LinearPassPositions(start, current_positions) == start

\* LinearPositioner.get_generator: a pass begins, the start position is yielded.
LinearPassStart ==
    /\ self.kind = "Linear"
    /\ gen.pc \in {"begin", "pass"}
    /\ gen.pass_number < self.passes
    /\ LET current_positions == LinearPassPositions(self.start, gen.current_positions)
       IN  /\ gen' = [gen EXCEPT !.pc = "step", !.step_number = 0,
                                 !.current_positions = current_positions]
           /\ out' = Append(out, current_positions)
    /\ UNCHANGED <<self, out_index, other, now, writer_vars, reader_vars>>

\* LinearPositioner.get_generator: one step, the new position is yielded.
LinearStep ==
    /\ self.kind = "Linear"
    /\ gen.pc = "step"
    /\ self.configured
    /\ gen.step_number < self.n_steps
    /\ LET current_positions ==
               LinearStepPositions(gen.current_positions, self.step_size, 1)
       IN  /\ gen' = [gen EXCEPT !.step_number = @ + 1,
                                 !.current_positions = current_positions]
           /\ out' = Append(out, current_positions)
    /\ UNCHANGED <<self, out_index, other, now, writer_vars, reader_vars>>

\* LinearPositioner.get_generator: the steps of a pass are done.
LinearPassEnd ==
    /\ self.kind = "Linear"
    /\ gen.pc = "step"
    /\ self.configured
    /\ gen.step_number >= self.n_steps
    /\ gen' = [gen EXCEPT !.pc = "pass", !.pass_number = @ + 1]
    /\ UNCHANGED <<self, out, out_index, other, now, writer_vars, reader_vars>>

\* LinearPositioner.get_generator: all passes are done, the generator ends.
LinearReturn ==
    /\ self.kind = "Linear"
    /\ gen.pc \in {"begin", "pass"}
    /\ gen.pass_number >= self.passes
    /\ gen' = [gen EXCEPT !.pc = "done"]
    /\ UNCHANGED <<self, out, out_index, other, now, writer_vars, reader_vars>>

\* "for __ in range(self.n_steps)" of a positioner whose constructor set no
\* n_steps: AttributeError, in the generator of either linear positioner.
LinearRangeRaise ==
    /\ self.kind \in {"Linear", "ZigZagLinear"}
    /\ gen.pc = "step"
    /\ ~self.configured
    /\ gen' = [gen EXCEPT !.pc = "raised", !.error = "AttributeError"]
    /\ UNCHANGED <<self, out, out_index, other, now, writer_vars, reader_vars>>

\* Every pass steps forward.
DirectionForward(pass_number) == 1

\* direction = 1 if pass_number % 2 == 0 else -1
Direction(pass_number) == IF pass_number % 2 = 0 THEN 1 ELSE -1

\* ZigZagLinearPositioner.get_generator: the start position is yielded, once.
ZigZagLinearStart ==
    /\ self.kind = "ZigZagLinear"
    /\ gen.pc = "begin"
    /\ gen' = [gen EXCEPT !.pc = "pass", !.current_positions = self.start]
    /\ out' = Append(out, self.start)
    /\ UNCHANGED <<self, out_index, other, now, writer_vars, reader_vars>>

\* ZigZagLinearPositioner.get_generator: a pass begins and takes its direction.
ZigZagLinearPassStart ==
    /\ self.kind = "ZigZagLinear"
    /\ gen.pc = "pass"
    /\ gen.pass_number < self.passes
    /\ gen' = [gen EXCEPT !.pc = "step", !.step_number = 0,
                          !.direction = Direction(gen.pass_number)]
    /\ UNCHANGED <<self, out, out_index, other, now, writer_vars, reader_vars>>

\* ZigZagLinearPositioner.get_generator: one step in the direction of the pass.
ZigZagLinearStep ==
    /\ self.kind = "ZigZagLinear"
    /\ gen.pc = "step"
    /\ self.configured
    /\ gen.step_number < self.n_steps
    /\ LET current_positions ==
               LinearStepPositions(gen.current_positions, self.step_size, gen.direction)
       IN  /\ gen' = [gen EXCEPT !.step_number = @ + 1,
                                 !.current_positions = current_positions]
           /\ out' = Append(out, current_positions)
    /\ UNCHANGED <<self, out_index, other, now, writer_vars, reader_vars>>

\* ZigZagLinearPositioner.get_generator: the steps of a pass are done.
ZigZagLinearPassEnd ==
    /\ self.kind = "ZigZagLinear"
    /\ gen.pc = "step"
    /\ self.configured
    /\ gen.step_number >= self.n_steps
    /\ gen' = [gen EXCEPT !.pc = "pass", !.pass_number = @ + 1]
    /\ UNCHANGED <<self, out, out_index, other, now, writer_vars, reader_vars>>

\* ZigZagLinearPositioner.get_generator: all passes are done.
ZigZagLinearReturn ==
    /\ self.kind = "ZigZagLinear"
    /\ gen.pc = "pass"
    /\ gen.pass_number >= self.passes
    /\ gen' = [gen EXCEPT !.pc = "done"]
    /\ UNCHANGED <<self, out, out_index, other, now, writer_vars, reader_vars>>

\* AreaPositioner.__init__
AreaPositionerInit(kind, start, end, steps, passes, offsets) ==
    LET self_start == WithOffsets(start, offsets)
        self_end == WithOffsets(end, offsets)
        n == Min(Min(Len(self_start), Len(self_end)), Len(steps))
    IN  [kind |-> kind,
         args |-> [start |-> start, end |-> end],
         offsets |-> offsets,
         passes |-> passes,
         start |-> self_start,
         end |-> self_end,
         steps |-> steps,
         configured |-> Configured(steps),
         n_axis |-> Len(start),
         n_steps |-> CASE steps[1].tag = "int" ->
                             [i \in 1..Len(steps) |-> StepValue(steps[i]) \div Unit]
                       [] steps[1].tag = "float" ->
                             [i \in 1..n |->
                                 Floor(self_end[i] - self_start[i], StepValue(steps[i]))]
                       [] OTHER -> <<>>,
         step_size |-> CASE steps[1].tag = "int" ->
                               [i \in 1..n |-> Divide(self_end[i] - self_start[i], steps[i])]
                         [] steps[1].tag = "float" ->
                               [i \in 1..Len(steps) |-> StepValue(steps[i])]
                         [] OTHER -> <<>>]

\* AreaPositioner(...) or ZigZagAreaPositioner(...)
ConstructArea ==
    /\ self.kind = "none"
    /\ \E kind \in {"Area", "ZigZagArea"}, n \in 1..MaxAxes, passes \in 1..MaxPasses :
          \E ranges \in [1..n -> AxisRanges], steps \in StepLists(n),
             offsets \in OffsetLists(n) :
             \E end \in EndLists([i \in 1..n |-> ranges[i][2]]) :
                self' = AreaPositionerInit(kind,
                                           [i \in 1..n |-> ranges[i][1]],
                                           end, steps, passes, offsets)
    /\ UNCHANGED <<gen, out, out_index, other, now, writer_vars, reader_vars>>

\* The directions persist from the pass before.
PassDirectionsKept(n_axis, directions) ==
    IF directions = <<>> THEN [i \in 1..n_axis |-> 1] ELSE directions

\* directions = [1] * self.n_axis, at the start of every pass
PassDirections(n_axis, directions) == [i \in 1..n_axis |-> 1]

\* The direction of an axis is left as it is.
InvertDirectionNot(direction) == direction

\* directions[axis_number] *= -1
InvertDirection(direction) == direction * (-1)

\* The axis is left where its loop ended.
AreaCleanUpNot(positions, start, axis_number) == positions

\* positions[axis_number] = self.start[axis_number]
AreaCleanUp(positions, start, axis_number) ==
    [positions EXCEPT ![axis_number] = start[axis_number]]

\* A call of scan_axis(axis_number) that has not run yet.
ScanAxisCall(axis_number) == [axis_number |-> axis_number, at |-> "enter", i |-> 0]

\* The call of scan_axis that is running.
Top == gen.stack[Len(gen.stack)]
Pop(stack) == SubSeq(stack, 1, Len(stack) - 1)

\* A call of scan_axis returns to its caller; when scan_axis(0) returns, the
\* pass is over.
AfterReturn(g) ==
    IF Len(g.stack) = 1
        THEN [g EXCEPT !.stack = <<>>, !.pc = "pass", !.pass_number = @ + 1,
                       !.left = g.directions]
        ELSE [g EXCEPT !.stack = Pop(@)]

\* get_generator of AreaPositioner and ZigZagAreaPositioner: a pass begins, at
\* the start position, which is yielded; scan_axis(0) is called.
AreaPassStart ==
    /\ self.kind \in {"Area", "ZigZagArea"}
    /\ gen.pc \in {"begin", "pass"}
    /\ gen.pass_number < self.passes
    /\ gen' = [gen EXCEPT !.pc = "scan",
                          !.current_positions = self.start,
                          !.directions = PassDirections(self.n_axis, @),
                          !.completed = [i \in 1..self.n_axis |-> 0],
                          !.stack = <<ScanAxisCall(1)>>]
    /\ out' = Append(out, self.start)
    /\ UNCHANGED <<self, out_index, other, now, writer_vars, reader_vars>>

\* scan_axis: "if not axis_number < self.n_axis: return"
ScanAxisNoAxis ==
    /\ self.kind \in {"Area", "ZigZagArea"}
    /\ gen.pc = "scan"
    /\ Top.at = "enter"
    /\ ~(Top.axis_number <= self.n_axis)
    /\ gen' = AfterReturn(gen)
    /\ UNCHANGED <<self, out, out_index, other, now, writer_vars, reader_vars>>

\* scan_axis: "yield from scan_axis(axis_number + 1)", with this axis where it is
ScanAxisEnter ==
    /\ self.kind \in {"Area", "ZigZagArea"}
    /\ gen.pc = "scan"
    /\ Top.at = "enter"
    /\ Top.axis_number <= self.n_axis
    /\ gen' = [gen EXCEPT !.stack =
                  Append([@ EXCEPT ![Len(@)].at = "loop"],
                         ScanAxisCall(Top.axis_number + 1))]
    /\ UNCHANGED <<self, out, out_index, other, now, writer_vars, reader_vars>>

\* The axis steps forward whatever its direction.
AreaStepPositionsForward(kind, positions, step_size, directions, axis_number) ==
    [positions EXCEPT ![axis_number] = @ + step_size[axis_number]]

\* What "for _ in range(self.n_steps[axis_number])" and the body of scan_axis
\* raise for the axis of the running call, "none" if they raise nothing:
\*   - self.n_steps was never set (AttributeError), has no element for the
\*     axis (IndexError), or its element is a float (TypeError of range);
\*   - in a turn of the loop, positions or self.step_size has no element for
\*     the axis (IndexError);
\*   - after the loop, AreaPositioner finds no self.start[axis_number]
\*     (IndexError).
LoopError(axis_number) ==
    IF ~self.configured THEN "AttributeError"
    ELSE IF axis_number > Len(self.n_steps) THEN "IndexError"
    ELSE IF self.steps[1].tag = "int" /\ self.steps[axis_number].tag # "int"
        THEN "TypeError"
    ELSE IF Top.i < self.n_steps[axis_number]
        THEN IF \/ axis_number > Len(gen.current_positions)
                \/ axis_number > Len(self.step_size)
                THEN "IndexError"
                ELSE "none"
    ELSE IF self.kind = "Area" /\ axis_number > Len(self.start)
        THEN "IndexError"
    ELSE "none"

\* positions[axis_number] + step_size[axis_number] (* directions[axis_number])
AreaStepPositions(kind, positions, step_size, directions, axis_number) ==
    [positions EXCEPT ![axis_number] =
        IF kind = "ZigZagArea"
            THEN @ + (step_size[axis_number] * directions[axis_number])
            ELSE @ + step_size[axis_number]]

\* scan_axis: one turn of "for _ in range(self.n_steps[axis_number])": the axis
\* moves a step, the position is yielded and scan_axis(axis_number + 1) called.
ScanAxisStep ==
    /\ self.kind \in {"Area", "ZigZagArea"}
    /\ gen.pc = "scan"
    /\ Top.at = "loop"
    /\ LoopError(Top.axis_number) = "none"
    /\ Top.i < self.n_steps[Top.axis_number]
    /\ LET positions == AreaStepPositions(self.kind, gen.current_positions,
                                          self.step_size, gen.directions,
                                          Top.axis_number)
       IN  /\ gen' = [gen EXCEPT !.current_positions = positions,
                                 !.stack = Append([@ EXCEPT ![Len(@)].i = @ + 1],
                                                  ScanAxisCall(Top.axis_number + 1))]
           /\ out' = Append(out, positions)
    /\ UNCHANGED <<self, out_index, other, now, writer_vars, reader_vars>>

\* scan_axis: the loop of the axis is done.  AreaPositioner returns the axis to
\* its start value, ZigZagAreaPositioner inverts the direction of the axis.
ScanAxisLoopEnd ==
    /\ self.kind \in {"Area", "ZigZagArea"}
    /\ gen.pc = "scan"
    /\ Top.at = "loop"
    /\ LoopError(Top.axis_number) = "none"
    /\ Top.i >= self.n_steps[Top.axis_number]
    /\ LET a == Top.axis_number
           g == IF self.kind = "ZigZagArea"
                   THEN [gen EXCEPT !.directions[a] = InvertDirection(@),
                                    !.completed[a] = @ + 1]
                   ELSE [gen EXCEPT !.current_positions =
                                        AreaCleanUp(@, self.start, a),
                                    !.completed[a] = @ + 1]
       IN  gen' = AfterReturn(g)
    /\ UNCHANGED <<self, out, out_index, other, now, writer_vars, reader_vars>>

\* scan_axis: the loop of the axis raises, which ends the generator.
ScanAxisRaise ==
    /\ self.kind \in {"Area", "ZigZagArea"}
    /\ gen.pc = "scan"
    /\ Top.at = "loop"
    /\ LoopError(Top.axis_number) # "none"
    /\ gen' = [gen EXCEPT !.pc = "raised", !.error = LoopError(Top.axis_number)]
    /\ UNCHANGED <<self, out, out_index, other, now, writer_vars, reader_vars>>

\* get_generator of AreaPositioner and ZigZagAreaPositioner: all passes are done.
AreaReturn ==
    /\ self.kind \in {"Area", "ZigZagArea"}
    /\ gen.pc \in {"begin", "pass"}
    /\ gen.pass_number >= self.passes
    /\ gen' = [gen EXCEPT !.pc = "done"]
    /\ UNCHANGED <<self, out, out_index, other, now, writer_vars, reader_vars>>

\* VectorPositioner.__init__
VectorPositionerInit(kind, positions, passes, offsets) ==
    [kind |-> kind,
     args |-> [positions |-> positions],
     positions |-> [i \in 1..Len(positions) |-> WithOffsets(positions[i], offsets)],
     passes |-> passes,
     offsets |-> offsets,
     n_positions |-> Len(positions)]

\* VectorPositioner(...) or ZigZagVectorPositioner(...)
ConstructVector ==
    /\ self.kind = "none"
    /\ \E kind \in {"Vector", "ZigZagVector"}, n \in 1..MaxPositions,
          passes \in 1..MaxPasses :
          \E positions \in [1..n -> Waypoints], offsets \in OffsetLists(1) :
             self' = VectorPositionerInit(kind, positions, passes, offsets)
    /\ UNCHANGED <<gen, out, out_index, other, now, writer_vars, reader_vars>>

\* Every second pass goes through the list from its end.
PassPositionZigZag(positions, x, pass_number) ==
    IF pass_number % 2 = 0 THEN positions[x + 1] ELSE positions[Len(positions) - x]

\* for position in self.positions: the position the loop is at after x turns
PassPosition(positions, x, pass_number) == positions[x + 1]

\* VectorPositioner.get_generator: the next position of the list is yielded.
VectorYield ==
    /\ self.kind = "Vector"
    /\ gen.pc \in {"begin", "pass"}
    /\ gen.pass_number < self.passes
    /\ gen.x < Len(self.positions)
    /\ gen' = [gen EXCEPT !.pc = "pass", !.x = @ + 1]
    /\ out' = Append(out, PassPosition(self.positions, gen.x, gen.pass_number))
    /\ out_index' = Append(out_index, gen.x)
    /\ UNCHANGED <<self, other, now, writer_vars, reader_vars>>

\* VectorPositioner.get_generator: the list is through, the pass is over.
VectorPassEnd ==
    /\ self.kind = "Vector"
    /\ gen.pc \in {"begin", "pass"}
    /\ gen.pass_number < self.passes
    /\ gen.x >= Len(self.positions)
    /\ gen' = [gen EXCEPT !.pc = "pass", !.x = 0, !.pass_number = @ + 1]
    /\ UNCHANGED <<self, out, out_index, other, now, writer_vars, reader_vars>>

\* VectorPositioner.get_generator: all passes are done.
VectorReturn ==
    /\ self.kind = "Vector"
    /\ gen.pc \in {"begin", "pass"}
    /\ gen.pass_number >= self.passes
    /\ gen' = [gen EXCEPT !.pc = "done"]
    /\ UNCHANGED <<self, out, out_index, other, now, writer_vars, reader_vars>>

\* range(a, b, 1) and range(a, b, -1)
RangeUp(a, b) == [i \in 1..(IF b > a THEN b - a ELSE 0) |-> a + (i - 1)]
RangeDown(a, b) == [i \in 1..(IF a > b THEN a - b ELSE 0) |-> a - (i - 1)]

\* Forward, then all the way back: both ends are replayed.
ZigZagIndexesBothEnds(n_positions) ==
    RangeUp(0, n_positions) \o RangeDown(n_positions - 1, -1)

\* chain(range(0, self.n_positions, 1), range(self.n_positions-2, 0, -1))
ZigZagIndexes(n_positions) ==
    RangeUp(0, n_positions) \o RangeDown(n_positions - 2, 0)

\* n_indexes = self.n_positions + ((self.passes-1) * (self.n_positions - 1))
NIndexes(n_positions, passes) == n_positions + ((passes - 1) * (n_positions - 1))

\* ZigZagVectorPositioner.get_generator: indexes and n_indexes are set up.
ZigZagVectorStart ==
    /\ self.kind = "ZigZagVector"
    /\ gen.pc = "begin"
    /\ gen' = [gen EXCEPT !.pc = "run",
                          !.indexes = ZigZagIndexes(self.n_positions),
                          !.cursor = 0,
                          !.n_indexes = NIndexes(self.n_positions, self.passes),
                          !.x = 0]
    /\ UNCHANGED <<self, out, out_index, other, now, writer_vars, reader_vars>>

\* ZigZagVectorPositioner.get_generator: yield self.positions[next(indexes)]
ZigZagVectorYield ==
    /\ self.kind = "ZigZagVector"
    /\ gen.pc = "run"
    /\ gen.x < gen.n_indexes
    /\ LET index == gen.indexes[gen.cursor + 1]
       IN  /\ out' = Append(out, self.positions[index + 1])
           /\ out_index' = Append(out_index, index)
    /\ gen' = [gen EXCEPT !.x = @ + 1,
                          !.cursor = (@ + 1) % Len(gen.indexes)]
    /\ UNCHANGED <<self, other, now, writer_vars, reader_vars>>

\* ZigZagVectorPositioner.get_generator: n_indexes positions were yielded.
ZigZagVectorReturn ==
    /\ self.kind = "ZigZagVector"
    /\ gen.pc = "run"
    /\ gen.x >= gen.n_indexes
    /\ gen' = [gen EXCEPT !.pc = "done"]
    /\ UNCHANGED <<self, out, out_index, other, now, writer_vars, reader_vars>>

(***************************************************************************)
(* EpicsWriter.write                                                       *)
(***************************************************************************)

\* write() is called: every PV is put, the convergence state is reset and
\* the start time is taken.
WriteCall ==
    /\ w_pc \in {"idle", "done"}
    /\ now <= MaxTime
    /\ \E vals \in [Pvs -> TargetVals], tol \in Tolerances, tmo \in Timeouts :
          /\ values' = vals
          /\ tolerance' = tol
          /\ timeout' = tmo
    /\ within_tolerance' = [i \in Pvs |-> FALSE]
    /\ initial_timestamp' = now
    /\ w_index' = 1
    /\ w_outcome' = "none"
    /\ first_poll' = [i \in Pvs |-> "none"]
    /\ ever_within' = [i \in Pvs |-> FALSE]
    /\ w_pc' = "check"
    /\ UNCHANGED <<now, reader_vars, positioner_vars>>

\* The loop goes on until all PVs have reached their target.
WriteLoopConditionNoTimeout(wt, t, t0, tmo) == ~AllReached(wt)

\* The condition of the while loop.
WriteLoopCondition(wt, t, t0, tmo) == ~AllReached(wt) /\ t - t0 < tmo

\* while not all(within_tolerance) and time.time() - initial_timestamp < timeout
WriteLoopCheck ==
    /\ w_pc = "check"
    /\ IF WriteLoopCondition(within_tolerance, now, initial_timestamp, timeout)
          THEN w_pc' = "poll" /\ w_index' = 1
          ELSE w_pc' = "end" /\ w_index' = w_index
    /\ UNCHANGED <<values, tolerance, timeout, within_tolerance,
                   initial_timestamp, w_outcome, first_poll, ever_within>>
    /\ UNCHANGED <<now, reader_vars, positioner_vars>>

\* The for loop moves on to the next PV, or the cycle is over.
NextPv(pc, i) == IF i < NumPvs THEN <<"poll", i + 1>> ELSE <<"check", 1>>

\* History of PV i's first poll: r1 is the first get, r2 the second get (None
\* when it was not made).
FirstPoll(i, hit) ==
    IF first_poll[i] = "none"
        THEN [first_poll EXCEPT ![i] = IF hit THEN "hit" ELSE "miss"]
        ELSE first_poll

\* The generator expression leaves out the PVs that have reached their target.
PollSkip ==
    /\ w_pc = "poll"
    /\ within_tolerance[w_index]
    /\ w_pc' = NextPv(w_pc, w_index)[1]
    /\ w_index' = NextPv(w_pc, w_index)[2]
    /\ UNCHANGED <<values, tolerance, timeout, within_tolerance,
                   initial_timestamp, w_outcome, first_poll, ever_within>>
    /\ UNCHANGED <<now, reader_vars, positioner_vars>>

\* current_value = pv.get(); if not current_value: continue
PollNoValue ==
    /\ w_pc = "poll"
    /\ ~within_tolerance[w_index]
    /\ \E r1 \in GetResults :
          /\ ~Truthy(r1)
          /\ first_poll' = FirstPoll(w_index, r1 = Some(values[w_index]))
          /\ ever_within' = [ever_within EXCEPT ![w_index] =
                @ \/ (r1 # None /\ WithinTolerance(r1[1], values[w_index], tolerance))]
    /\ w_pc' = NextPv(w_pc, w_index)[1]
    /\ w_index' = NextPv(w_pc, w_index)[2]
    /\ UNCHANGED <<values, tolerance, timeout, within_tolerance,
                   initial_timestamp, w_outcome>>
    /\ UNCHANGED <<now, reader_vars, positioner_vars>>

\* if abs(pv.get() - values[index]) < tolerance: within_tolerance[index] = True
\* The PV is read a second time, and this second value is the one compared.
PollCompare ==
    /\ w_pc = "poll"
    /\ ~within_tolerance[w_index]
    /\ \E r1 \in GetResults, r2 \in GetResults :
          /\ Truthy(r1)
          /\ r2 # None
          /\ within_tolerance' = [within_tolerance EXCEPT ![w_index] =
                WithinTolerance(r2[1], values[w_index], tolerance)]
          /\ first_poll' = FirstPoll(w_index, r1 = Some(values[w_index])
                                              /\ r2 = Some(values[w_index]))
          /\ ever_within' = [ever_within EXCEPT ![w_index] =
                \/ @
                \/ WithinTolerance(r1[1], values[w_index], tolerance)
                \/ WithinTolerance(r2[1], values[w_index], tolerance)]
    /\ w_pc' = NextPv(w_pc, w_index)[1]
    /\ w_index' = NextPv(w_pc, w_index)[2]
    /\ UNCHANGED <<values, tolerance, timeout, initial_timestamp, w_outcome>>
    /\ UNCHANGED <<now, reader_vars, positioner_vars>>

\* The second pv.get() returns None: abs(None - value) raises TypeError, which
\* leaves write() from inside the loop.
PollTypeError ==
    /\ w_pc = "poll"
    /\ ~within_tolerance[w_index]
    /\ \E r1 \in GetResults :
          /\ Truthy(r1)
          /\ first_poll' = FirstPoll(w_index, FALSE)
          /\ ever_within' = [ever_within EXCEPT ![w_index] =
                @ \/ WithinTolerance(r1[1], values[w_index], tolerance)]
    /\ w_outcome' = "TypeError"
    /\ w_pc' = "done"
    /\ UNCHANGED <<values, tolerance, timeout, within_tolerance,
                   initial_timestamp, w_index>>
    /\ UNCHANGED <<now, reader_vars, positioner_vars>>

\* if not all(within_tolerance): raise ValueError(...)
WriteEnd ==
    /\ w_pc = "end"
    /\ w_outcome' = IF ~AllReached(within_tolerance) THEN "ValueError" ELSE "ok"
    /\ w_pc' = "done"
    /\ UNCHANGED <<values, tolerance, timeout, within_tolerance,
                   initial_timestamp, w_index, first_poll, ever_within>>
    /\ UNCHANGED <<now, reader_vars, positioner_vars>>

(***************************************************************************)
(* The state after construction, and the specifications.                   *)
(***************************************************************************)
Init ==
    /\ now = 0
    /\ w_pc = "idle"
    /\ values = [i \in Pvs |-> 0]
    /\ tolerance = 1
    /\ timeout = 1
    /\ within_tolerance = [i \in Pvs |-> FALSE]
    /\ initial_timestamp = 0
    /\ w_index = 1
    /\ w_outcome = "none"
    /\ first_poll = [i \in Pvs |-> "none"]
    /\ ever_within = [i \in Pvs |-> FALSE]
    /\ r_pc = "idle"
    /\ message_cache = None
    /\ message_cache_timestamp = None
    /\ read_timestamp = 0
    /\ stream = [connected |-> TRUE, ts |-> 0, pulse |-> 0]
    /\ r_outcome = "none"
    /\ r_result = <<>>
    /\ last_message = None
    /\ last_match = None
    /\ matched = None
    /\ r_hist = NoHistory
    /\ self = NoPositioner
    /\ gen = NoGenerator
    /\ out = <<>>
    /\ out_index = <<>>
    /\ other = NoOther

WriterNext ==
    \/ WriteCall
    \/ WriteLoopCheck
    \/ PollSkip
    \/ PollNoValue
    \/ PollCompare
    \/ PollTypeError
    \/ WriteEnd
    \/ Tick

WriterSpec == Init /\ [][WriterNext]_vars

ReaderNext ==
    \/ ReadCall
    \/ ReadMatch
    \/ ReadNoMatch
    \/ ReadTimeout
    \/ ReadStreamError
    \/ ReadCachedMonitors
    \/ Close
    \/ Tick

ReaderSpec == Init /\ [][ReaderNext]_vars

LinearNext ==
    \/ ConstructLinear
    \/ GetGenerator
    \/ LinearPassStart
    \/ LinearStep
    \/ LinearPassEnd
    \/ LinearReturn
    \/ LinearRangeRaise
    \/ ZigZagLinearStart
    \/ ZigZagLinearPassStart
    \/ ZigZagLinearStep
    \/ ZigZagLinearPassEnd
    \/ ZigZagLinearReturn

LinearSpec == Init /\ [][LinearNext]_vars

AreaNext ==
    \/ ConstructArea
    \/ GetGenerator
    \/ AreaPassStart
    \/ ScanAxisNoAxis
    \/ ScanAxisEnter
    \/ ScanAxisStep
    \/ ScanAxisLoopEnd
    \/ ScanAxisRaise
    \/ AreaReturn

AreaSpec == Init /\ [][AreaNext]_vars

VectorNext ==
    \/ ConstructVector
    \/ GetGenerator
    \/ VectorYield
    \/ VectorPassEnd
    \/ VectorReturn
    \/ ZigZagVectorStart
    \/ ZigZagVectorYield
    \/ ZigZagVectorReturn

VectorSpec == Init /\ [][VectorNext]_vars

\* Two generators of one positioner, of any kind, taken from in any order.
WithinInterleaving == Len(out) <= MaxInterleaved

RestartNext ==
    \/ ConstructLinear
    \/ ConstructArea
    \/ ConstructVector
    \/ GetGenerator
    \/ SwapGenerators
    \/ WithinInterleaving /\ LinearPassStart
    \/ WithinInterleaving /\ LinearStep
    \/ WithinInterleaving /\ LinearPassEnd
    \/ WithinInterleaving /\ LinearReturn
    \/ WithinInterleaving /\ LinearRangeRaise
    \/ WithinInterleaving /\ ZigZagLinearStart
    \/ WithinInterleaving /\ ZigZagLinearPassStart
    \/ WithinInterleaving /\ ZigZagLinearStep
    \/ WithinInterleaving /\ ZigZagLinearPassEnd
    \/ WithinInterleaving /\ ZigZagLinearReturn
    \/ WithinInterleaving /\ AreaPassStart
    \/ WithinInterleaving /\ ScanAxisNoAxis
    \/ WithinInterleaving /\ ScanAxisEnter
    \/ WithinInterleaving /\ ScanAxisStep
    \/ WithinInterleaving /\ ScanAxisLoopEnd
    \/ WithinInterleaving /\ ScanAxisRaise
    \/ WithinInterleaving /\ AreaReturn
    \/ WithinInterleaving /\ VectorYield
    \/ WithinInterleaving /\ VectorPassEnd
    \/ WithinInterleaving /\ VectorReturn
    \/ WithinInterleaving /\ ZigZagVectorStart
    \/ WithinInterleaving /\ ZigZagVectorYield
    \/ WithinInterleaving /\ ZigZagVectorReturn

RestartSpec == Init /\ [][RestartNext]_vars

\* The calls of one EpicsWriter, or the calls of one ReadGroupInterface, with
\* the conditions under which a call is expected to end: the clock advances,
\* and every pv.get() and every stream.receive() returns.
WriterUnused == w_pc = "idle"
ReaderUnused ==
    r_pc = "idle" /\ r_outcome = "none" /\ r_hist = NoHistory /\ stream.connected

\* One write() is followed, of one target for all PVs; what the PVs read back
\* is free for every PV.
WriteCallAlone ==
    /\ ReaderUnused
    /\ WriterUnused
    /\ WriteCall
    /\ \A i \in Pvs : values'[i] = values'[1]
ReadCallAlone == WriterUnused /\ ReadCall
ReadCachedMonitorsAlone == WriterUnused /\ ReadCachedMonitors
CloseAlone == WriterUnused /\ Close

TerminationNext ==
    \/ WriteCallAlone
    \/ WriteLoopCheck
    \/ PollSkip
    \/ PollNoValue
    \/ PollCompare
    \/ PollTypeError
    \/ WriteEnd
    \/ ReadCallAlone
    \/ ReadMatch
    \/ ReadNoMatch
    \/ ReadTimeout
    \/ ReadStreamError
    \/ ReadCachedMonitorsAlone
    \/ CloseAlone
    \/ Tick

TerminationFairness ==
    /\ WF_vars(Tick)
    /\ WF_vars(WriteLoopCheck)
    /\ WF_vars(PollSkip)
    /\ WF_vars(PollNoValue \/ PollCompare \/ PollTypeError)
    /\ WF_vars(WriteEnd)
    /\ WF_vars(ReadMatch \/ ReadNoMatch \/ ReadStreamError)
    /\ WF_vars(ReadTimeout)

TerminationSpec == Init /\ [][TerminationNext]_vars /\ TerminationFairness


\* C1: write returns normally whenever every PV's first poll after the put
\* read back exactly the PV's target, for any numeric target, zero and
\* negative targets included.
C1_ReturnsWhenFirstReadHits ==
    (w_pc = "done" /\ \A i \in Pvs : first_poll[i] = "hit") => w_outcome = "ok"

\* C2: write raises the convergence-timeout error whenever some PV never read
\* back a value within tolerance of its target.
C2_TimeoutWhenNeverWithin ==
    (w_pc = "done" /\ \E i \in Pvs : ~ever_within[i]) => w_outcome = "ValueError"

\* C3: read_cached_monitors() returns the monitor values of the frame that the
\* last successful read() matched and returned its values from, and a cache
\* that is not empty holds that frame: a frame received later from the stream
\* never gets into the cache without a successful read().
C3_MonitorsOfMatchedFrame ==
    /\ message_cache # None => message_cache = matched
    /\ r_outcome = "monitors" =>
          /\ matched # None
          /\ r_result = [i \in 1..Len(monitor_properties) |->
                            <<monitor_properties[i], matched[1].pulse>>]
    /\ r_outcome = "read" =>
          /\ matched # None
          /\ r_result = [i \in 1..Len(properties) |->
                            <<properties[i], matched[1].pulse>>]

\* C3 witness: the monitors were read after a read() that followed the matching
\* one had received a later frame and timed out.
C3_Witness ==
    /\ r_outcome = "monitors"
    /\ last_message # None
    /\ last_message # matched
    /\ r_result = <<FrameData(matched[1], "M1")>>

\* C4: is_message_after_timestamp(frame, t0) is true exactly when the frame is
\* present and frame.sec > S or (frame.sec = S and frame.ns >= N), with S and N
\* the seconds and nanoseconds of t0.
C4_MatchRule ==
    last_match # None =>
        LET S == read_timestamp \div NsPerSec
            N == read_timestamp % NsPerSec
        IN  last_match[1] <=>
               /\ last_message # None
               /\ \/ last_message[1].sec > S
                  \/ last_message[1].sec = S /\ last_message[1].ns >= N

\* C4 witness: a frame exactly at the boundary (sec = S, ns = N) has matched.
C4_Witness ==
    /\ last_match = Some(TRUE)
    /\ last_message # None
    /\ last_message[1].sec = read_timestamp \div NsPerSec
    /\ last_message[1].ns = read_timestamp % NsPerSec
    /\ last_message[1].ns > 0

\* The positioner was built from a list of step counts or a list of step
\* sizes, and from as many end values, and offsets if any, as start values.
StepsWellFormed ==
    \A i \in 1..Len(self.steps) :
        self.steps[i].tag = self.steps[1].tag /\ self.steps[i].tag # "other"
AxesAgree ==
    /\ Len(self.args.end) = Len(self.args.start)
    /\ self.offsets # <<>> => Len(self.offsets) = Len(self.args.start)
WellFormed == StepsWellFormed /\ AxesAgree

\* start + k * step_size, on every axis
Stepped(start, step_size, k) ==
    [i \in 1..Len(start) |-> start[i] + k * step_size[i]]

\* The positioner was built from one step count, shared by all axes.
SharedStepCount ==
    \A i \in 1..Len(self.steps) : self.steps[i] = [tag |-> "int", v |-> self.n_steps]

\* C7: ZigZagLinearPositioner with step count n and passes p emits 1 + p*n
\* vectors: start once, at the very beginning, then n steps per pass, forward
\* in the even passes and backward in the odd ones, each pass going on from the
\* last position of the pass before; it ends at end when p is odd and at start
\* when p is even.
C7_ZigZagLinearSequence ==
    (self.kind = "ZigZagLinear" /\ WellFormed /\ self.n_steps >= 0) =>
        LET n == self.n_steps
            p == self.passes
        IN  /\ Len(out) <= 1 + p * n
            /\ gen.pc = "done" => Len(out) = 1 + p * n
            /\ Len(out) >= 1 => out[1] = self.start
            /\ \A j \in 2..Len(out) :
                  LET i == (j - 2) \div n
                      s == ((j - 2) % n) + 1
                      k == IF i % 2 = 0 THEN s ELSE n - s
                  IN  out[j] = Stepped(self.start, self.step_size, k)
            /\ (gen.pc = "done" /\ SharedStepCount) =>
                  out[Len(out)] = IF p % 2 = 1 THEN self.end ELSE self.start

\* C7 witness: two passes of two steps on two axes have been emitted, and the
\* sequence is back at start.
C7_Witness ==
    /\ self.kind = "ZigZagLinear"
    /\ gen.pc = "done"
    /\ self.passes = 2
    /\ self.n_steps = 2
    /\ SharedStepCount
    /\ Len(self.start) = 2
    /\ Len(out) = 5
    /\ out[3] = self.end
    /\ out[5] = self.start
    /\ out[4] # out[5]

\* C9: LinearPositioner with step count n and passes p emits p*(n+1) vectors;
\* the k-th vector of every pass (k = 0..n) is start + k*step_size on every
\* axis, so every pass begins at start and ends at end.
C9_LinearSequence ==
    (self.kind = "Linear" /\ WellFormed /\ self.n_steps >= 0) =>
        LET n == self.n_steps
            p == self.passes
        IN  /\ Len(out) <= p * (n + 1)
            /\ gen.pc = "done" => Len(out) = p * (n + 1)
            /\ \A j \in 1..Len(out) :
                  LET k == (j - 1) % (n + 1)
                  IN  /\ out[j] = Stepped(self.start, self.step_size, k)
                      /\ (k = n /\ SharedStepCount) => out[j] = self.end

\* C9 witness: two passes of two steps on two axes have been emitted, and the
\* second pass began at start again.
C9_Witness ==
    /\ self.kind = "Linear"
    /\ gen.pc = "done"
    /\ self.passes = 2
    /\ self.n_steps = 2
    /\ SharedStepCount
    /\ Len(self.start) = 2
    /\ Len(out) = 6
    /\ out[3] = self.end
    /\ out[4] = self.start
    /\ out[3] # out[4]

\* (n_steps[a] + 1) * ... * (n_steps[b] + 1)
RECURSIVE GridSize(_, _, _)
GridSize(n_steps, a, b) ==
    IF a > b THEN 1 ELSE (n_steps[a] + 1) * GridSize(n_steps, a + 1, b)

\* The k-th point (k = 0, 1, ...) of the grid in odometer order: axis 1 is the
\* slowest and the last axis the fastest.
GridPoint(k) ==
    [a \in 1..self.n_axis |->
        self.start[a] + self.step_size[a] *
            ((k \div GridSize(self.n_steps, a + 1, self.n_axis)) % (self.n_steps[a] + 1))]

StepCountsNotNegative == \A a \in 1..Len(self.n_steps) : self.n_steps[a] >= 0

\* 1 after an even number of inversions, -1 after an odd number
Parity(n) == IF n % 2 = 0 THEN 1 ELSE -1

\* C5, as claimed: the direction of every axis inverts each time the axis
\* completes its loop, and the directions a pass begins with are those the pass
\* before it left.
C5_DirectionsPersist ==
    (self.kind = "ZigZagArea" /\ WellFormed /\ gen.pc = "scan"
        /\ StepCountsNotNegative) =>
        \A a \in 1..self.n_axis :
            gen.directions[a] =
                (IF gen.left = <<>> THEN 1 ELSE gen.left[a]) * Parity(gen.completed[a])

\* C5, amended: the direction of every axis inverts each time the axis
\* completes its loop, and every pass begins with all directions forward,
\* whatever the pass before it left: the direction of an axis is forward after
\* an even number of completed loops of the axis in this pass, backward after
\* an odd number.
C5_DirectionsResetPerPass ==
    (self.kind = "ZigZagArea" /\ WellFormed /\ gen.pc = "scan") =>
        \A a \in 1..self.n_axis :
            gen.directions[a] = Parity(gen.completed[a])

\* C5 witness: in a second pass, an axis that the first pass left backward has
\* completed its loop once and is backward.
C5_Witness ==
    /\ self.kind = "ZigZagArea"
    /\ gen.pc = "scan"
    /\ gen.pass_number = 1
    /\ \E a \in 1..self.n_axis :
          /\ gen.left[a] = -1
          /\ gen.completed[a] = 1
          /\ gen.directions[a] = -1

\* C8: in every pass AreaPositioner emits the prod(n_steps[i] + 1) points of the
\* grid, each once, in odometer order with axis 0 the slowest, and every pass
\* begins at start again.
C8_AreaOdometer ==
    (self.kind = "Area" /\ WellFormed /\ StepCountsNotNegative) =>
        LET size == GridSize(self.n_steps, 1, self.n_axis)
        IN  /\ Len(out) <= self.passes * size
            /\ gen.pc = "done" => Len(out) = self.passes * size
            /\ \A j \in 1..Len(out) : out[j] = GridPoint((j - 1) % size)
            /\ gen.pc \in {"pass", "done"} =>
                  \A pass \in 0..(Len(out) \div size) - 1, k \in 0..size - 1 :
                     Cardinality({j \in 1..size : out[pass * size + j] = GridPoint(k)}) = 1

\* C8 witness: two passes over two axes with n_steps = [1, 1]: start, axis 1
\* stepped, axis 0 stepped with axis 1 back at start, both stepped, and start
\* again.
C8_Witness ==
    /\ self.kind = "Area"
    /\ gen.pc = "done"
    /\ self.n_axis = 2
    /\ self.n_steps = <<1, 1>>
    /\ self.passes = 2
    /\ Len(out) = 8
    /\ out[1] = self.start
    /\ out[2] = <<self.start[1], self.start[2] + self.step_size[2]>>
    /\ out[3] = <<self.start[1] + self.step_size[1], self.start[2]>>
    /\ out[4] = <<self.start[1] + self.step_size[1], self.start[2] + self.step_size[2]>>
    /\ out[5] = self.start
    /\ out[2] # out[3]

\* The inner sweeps of a ZigZagAreaPositioner scan: the values of the innermost
\* axis, in runs of n_steps + 1.
SweepLength == self.n_steps[self.n_axis] + 1
Sweep(j) == [i \in 1..SweepLength |-> out[j * SweepLength + i][self.n_axis]]
Reversed(seq) == [i \in 1..Len(seq) |-> seq[Len(seq) + 1 - i]]
SweepsPerPass == GridSize(self.n_steps, 1, self.n_axis - 1)
HasInnerSweeps ==
    /\ self.kind = "ZigZagArea"
    /\ WellFormed
    /\ StepCountsNotNegative
    /\ self.n_steps[self.n_axis] >= 1

\* C10, as claimed: any two consecutive inner sweeps of the scan visit the
\* values of the inner axis in opposite orders.
C10_ConsecutiveSweepsMirror ==
    HasInnerSweeps =>
        \A j \in 0..(Len(out) \div SweepLength) - 2 :
            Sweep(j + 1) = Reversed(Sweep(j))

\* C10, amended: any two consecutive inner sweeps of the same pass visit the
\* values of the inner axis in opposite orders, and the first inner sweep of
\* every pass is a forward sweep from start.
C10_SweepsMirrorWithinPass ==
    HasInnerSweeps =>
        /\ \A j \in 0..(Len(out) \div SweepLength) - 2 :
              (j + 1) % SweepsPerPass # 0 => Sweep(j + 1) = Reversed(Sweep(j))
        /\ \A j \in 0..(Len(out) \div SweepLength) - 1 :
              j % SweepsPerPass = 0 =>
                 Sweep(j) = [i \in 1..SweepLength |->
                               self.start[self.n_axis]
                                  + (i - 1) * self.step_size[self.n_axis]]

\* C10 witness: a scan of two passes with n_steps = [1, 2] is done, and its 3rd
\* and 4th inner sweeps are mirror images of each other.
C10_Witness ==
    /\ self.kind = "ZigZagArea"
    /\ gen.pc = "done"
    /\ self.passes = 2
    /\ self.n_steps = <<1, 2>>
    /\ Len(out) = 12
    /\ Sweep(3) = Reversed(Sweep(2))
    /\ Sweep(3) # Sweep(2)

\* The t-th index (t = 0, 1, ...) of the ping-pong 0..n-1, n-2..1, 0..n-1, ...
PingPong(t, n) ==
    IF n = 1
        THEN 0
        ELSE LET m == t % (2 * n - 2)
             IN  IF m < n THEN m ELSE (2 * n - 2) - m

\* C6: ZigZagVectorPositioner with n waypoints and p passes emits
\* n + (p-1)*(n-1) positions, their indexes in the order 0..n-1, n-2..1,
\* 0..n-1, ...; for n >= 2 no two consecutive positions have the same index.
C6_ZigZagVectorSequence ==
    self.kind = "ZigZagVector" =>
        LET n == self.n_positions
            p == self.passes
        IN  /\ Len(out) = Len(out_index)
            /\ Len(out) <= n + (p - 1) * (n - 1)
            /\ gen.pc = "done" => Len(out) = n + (p - 1) * (n - 1)
            /\ \A j \in 1..Len(out) :
                  /\ out_index[j] = PingPong(j - 1, n)
                  /\ out[j] = self.positions[out_index[j] + 1]
            /\ n >= 2 => \A j \in 1..Len(out) - 1 : out_index[j] # out_index[j + 1]

\* C6 witness: 3 waypoints and 2 passes have given the indexes 0, 1, 2, 1, 0.
C6_Witness ==
    /\ self.kind = "ZigZagVector"
    /\ gen.pc = "done"
    /\ self.n_positions = 3
    /\ self.passes = 2
    /\ out_index = <<0, 1, 2, 1, 0>>

(***************************************************************************)
(* The cache of ReadGroupInterface                                         *)
(***************************************************************************)
\* C11: as long as no read() has returned since construction or since the last
\* close(), the cache is empty and read_cached_monitors() ends in the
\* empty-cache error: close() empties the cache and a read() that ends in an
\* error puts nothing into it.
C11_EmptyCacheUntilReadSucceeds ==
    ~r_hist.succeeded =>
        /\ message_cache = None
        /\ r_outcome \in {"monitors", "EmptyCache"} => r_outcome = "EmptyCache"

\* read_cached_monitors() has failed after a close() that followed a matched
\* frame, and after a read() on the closed stream that ended in an error.
C11_Witness ==
    /\ r_outcome = "EmptyCache"
    /\ matched # None
    /\ ~stream.connected
    /\ r_hist.last_read \in {"ReadTimeout", "StreamError"}

\* C12: while read() waits for a matching frame, and when it ends in the
\* read-timeout error, the cache and its timestamp are what they were when the
\* call was made; a read_cached_monitors() that follows the timeout returns the
\* monitors of the frame matched before.
C12_TimeoutKeepsCache ==
    /\ (r_pc = "loop" \/ r_outcome = "ReadTimeout") =>
            <<message_cache, message_cache_timestamp>> = r_hist.cache_at_call
    /\ (r_outcome = "monitors" /\ r_hist.last_read = "ReadTimeout") =>
            /\ r_hist.cache_at_call[1] # None
            /\ r_hist.cache_at_call[1] = matched
            /\ r_result = [i \in 1..Len(monitor_properties) |->
                              FrameData(matched[1], monitor_properties[i])]

\* read_cached_monitors() has returned after a read() that timed out although
\* it had received a frame.
C12_Witness ==
    /\ r_outcome = "monitors"
    /\ r_hist.last_read = "ReadTimeout"
    /\ r_hist.received # <<>>

\* C18: a read() that returns has cached, and returns the values of, the last
\* frame it received; that frame is not before the call's timestamp and every
\* frame the call received earlier is before it.  The cached frame is never
\* before the timestamp it was cached with.
C18_FirstFrameNotBeforeCall ==
    /\ r_outcome = "read" =>
            LET received == r_hist.received
                n == Len(received)
            IN  /\ n > 0
                /\ message_cache = Some(received[n])
                /\ r_result = [i \in 1..Len(properties) |->
                                  FrameData(received[n], properties[i])]
                /\ FrameTime(received[n]) >= read_timestamp
                /\ \A k \in 1..(n - 1) : FrameTime(received[k]) < read_timestamp
    /\ message_cache # None =>
            FrameTime(message_cache[1]) >= message_cache_timestamp[1]

\* read() has returned the second frame it received, called at a timestamp
\* that is not a whole second.
C18_Witness ==
    /\ r_outcome = "read"
    /\ Len(r_hist.received) >= 2
    /\ read_timestamp % NsPerSec # 0

(***************************************************************************)
(* A read without a value while write() polls                              *)
(***************************************************************************)
\* C17: whatever the reads of a channel return while write() polls, a read
\* without a value included, a write() that has ended has either returned or
\* raised the convergence-timeout error.
C17_NoValueIsNotYetConverged ==
    w_pc = "done" => w_outcome \in {"ok", "ValueError"}

(***************************************************************************)
(* VectorPositioner                                                        *)
(***************************************************************************)
\* C16: VectorPositioner with n positions and p passes emits p * n positions:
\* the j-th position emitted (j = 1, 2, ...) is the ((j-1) mod n + 1)-th of
\* the list, so every pass goes through the list in the order given.
C16_VectorSequence ==
    self.kind = "Vector" =>
        LET n == self.n_positions
            p == self.passes
        IN  /\ Len(out) <= p * n
            /\ gen.pc = "done" => Len(out) = p * n
            /\ \A j \in 1..Len(out) : out[j] = self.positions[((j - 1) % n) + 1]

\* Both passes over three positions, the first and the last of which differ,
\* have been emitted.
C16_Witness ==
    /\ self.kind = "Vector"
    /\ gen.pc = "done"
    /\ self.n_positions = 3
    /\ self.passes = 2
    /\ self.positions[1] # self.positions[3]
    /\ Len(out) = 6

(***************************************************************************)
(* Termination of write() and read()                                       *)
(***************************************************************************)
\* C19: every write() and every read() that is called ends.  write() leaves
\* its loop only when all PVs have converged or the timeout has elapsed, and
\* raises the timeout error only after the timeout has elapsed; read() raises
\* the timeout error only after the read timeout has elapsed.
C19_CallsTerminate ==
    /\ (w_pc \in {"check", "poll", "end"}) ~> (w_pc = "done")
    /\ (r_pc = "loop") ~> (r_pc = "idle")
    /\ [](w_pc = "end" => \/ AllReached(within_tolerance)
                          \/ now - initial_timestamp >= timeout)
    /\ [](w_outcome = "ok" => AllReached(within_tolerance))
    /\ [](w_outcome = "ValueError" => now - initial_timestamp >= timeout)
    /\ [](r_outcome = "ReadTimeout" => now - read_timestamp >= DefaultReadTimeout)

\* A write() with the longest timeout has polled a PV that read no value, and
\* has ended in the timeout error.
C19_Witness ==
    /\ w_pc = "done"
    /\ w_outcome = "ValueError"
    /\ timeout = MaxTimeout
    /\ \E i \in Pvs : first_poll[i] = "miss"

(***************************************************************************)
(* The path of ZigZagAreaPositioner within a pass                          *)
(***************************************************************************)
\* x lies between a and b, whichever of the two is the larger.
Between(x, a, b) == (a <= x /\ x <= b) \/ (b <= x /\ x <= a)

\* The axes on which two positions differ.
DiffAxes(p, q) == {a \in 1..Len(p) : p[a] # q[a]}

\* C20: in every pass ZigZagAreaPositioner emits the prod(n_steps[i] + 1)
\* points of the grid, each once; every coordinate emitted lies between
\* start[i] and end[i]; and two consecutive positions of a pass differ on one
\* axis only, by one step_size of that axis.
C20_Boustrophedon ==
    (self.kind = "ZigZagArea" /\ WellFormed /\ StepCountsNotNegative) =>
        LET size == GridSize(self.n_steps, 1, self.n_axis)
        IN  /\ Len(out) <= self.passes * size
            /\ gen.pc = "done" => Len(out) = self.passes * size
            /\ \A j \in 1..Len(out), a \in 1..self.n_axis :
                  Between(out[j][a], self.start[a], self.end[a])
            /\ \A j \in 1..Len(out) - 1 :
                  j % size # 0 =>
                     \E a \in 1..self.n_axis :
                        /\ DiffAxes(out[j], out[j + 1]) = {a}
                        /\ Abs(out[j + 1][a] - out[j][a]) = Abs(self.step_size[a])
            /\ gen.pc \in {"pass", "done"} =>
                  \A pass \in 0..(Len(out) \div size) - 1, k \in 0..size - 1 :
                     Cardinality({j \in 1..size : out[pass * size + j] = GridPoint(k)}) = 1

\* A pass over two axes with n_steps = [2, 2] is done: the inner axis turned
\* round at its end when the outer axis stepped, and the pass ended at end.
C20_Witness ==
    /\ self.kind = "ZigZagArea"
    /\ gen.pc = "done"
    /\ self.passes = 1
    /\ self.n_steps = <<2, 2>>
    /\ Len(out) = 9
    /\ out[3] = <<self.start[1], self.end[2]>>
    /\ out[4] = <<self.start[1] + self.step_size[1], self.end[2]>>
    /\ out[6] = <<self.start[1] + self.step_size[1], self.start[2]>>
    /\ out[9] = self.end

(***************************************************************************)
(* What the constructors accept                                            *)
(***************************************************************************)
\* C13: a positioner that has been constructed was given a list of step
\* counts or a list of step sizes: a steps list whose first element is neither
\* an int nor a float, or that mixes the two, constructs no positioner.
C13_MalformedStepsRejected ==
    self.kind \in {"Linear", "ZigZagLinear", "Area", "ZigZagArea"} => StepsWellFormed

\* C14: a positioner that has been constructed was given as many end values,
\* and as many offsets if any, as start values: lists of different lengths
\* construct no positioner.
C14_AxisCountsAgree ==
    self.kind \in {"Linear", "ZigZagLinear", "Area", "ZigZagArea"} => AxesAgree

(***************************************************************************)
(* Generators of one positioner                                            *)
(***************************************************************************)
IsPrefix(s, t) == Len(s) <= Len(t) /\ \A i \in 1..Len(s) : s[i] = t[i]
SameSoFar(s, t) == IsPrefix(s, t) \/ IsPrefix(t, s)

\* The first position of the sequence: the start the constructor was given (or
\* the first waypoint), with the offsets added once.
FirstPosition ==
    IF self.kind \in {"Vector", "ZigZagVector"}
        THEN WithOffsets(self.args.positions[1], self.offsets)
        ELSE WithOffsets(self.args.start, self.offsets)

Ended(g) == g.pc \in {"done", "raised"}

StepSizeModeAscending ==
    /\ WellFormed
    /\ \A i \in 1..Len(self.steps) :
          self.steps[i].tag = "float" /\ self.steps[i].v > 0
    /\ \A i \in 1..Len(self.start) : self.end[i] >= self.start[i]

\* C21: a LinearPositioner or an AreaPositioner built from positive step sizes,
\* with end >= start on every axis, emits no coordinate beyond the end of its
\* axis, also when (end - start) / step differs from axis to axis.
C21_StepSizeStaysWithinEnd ==
    (self.kind \in {"Linear", "Area"} /\ StepSizeModeAscending) =>
        \A j \in 1..Len(out) :
            \A i \in 1..Len(out[j]) : out[j][i] <= self.end[i]
====
